---- MODULE Spec2Model ----
(***************************************************************************)
(* Model of Resume_parser.py: the Streamlit script that extracts text from *)
(* an uploaded PDF, asks the Groq LLM for a JSON record, validates it with *)
(* the pydantic schema ResumeData, scores it with calculate_resume_score   *)
(* and inserts the scored record into the MySQL table parsed_resumes.      *)
(*                                                                         *)
(* Python str values are sequences of one-character strings, Python float  *)
(* values are IEEE-754 binary64 numbers (sign, 53-bit significand kept in  *)
(* 15-bit limbs, exponent of the last significand bit) with round to       *)
(* nearest, ties to even, as CPython computes them.  Infinities, NaN and   *)
(* subnormals are outside the model.                                       *)
(***************************************************************************)
EXTENDS Integers, Sequences, FiniteSets, TLC

(***************************************************************************)
(* Natural numbers of arbitrary size: sequences of limbs, least            *)
(* significant first, no leading zero limb.                                *)
(***************************************************************************)
LimbBits == 15
Base == 32768
MantBits == 53
GuardShift == 75

RECURSIVE Pow2(_)
Pow2(k) == IF k = 0 THEN 1 ELSE 2 * Pow2(k - 1)

Abs(i) == IF i < 0 THEN -i ELSE i
Sign(i) == IF i < 0 THEN 1 ELSE 0

Limb(a, i) == IF i <= Len(a) THEN a[i] ELSE 0
Zeros(n) == [i \in 1..n |-> 0]

RECURSIVE NNorm(_)
NNorm(a) ==
    IF a = <<>> THEN a
    ELSE IF a[Len(a)] = 0 THEN NNorm(SubSeq(a, 1, Len(a) - 1)) ELSE a

RECURSIVE NFromInt(_)
NFromInt(n) == IF n = 0 THEN <<>> ELSE <<n % Base>> \o NFromInt(n \div Base)

RECURSIVE NToInt(_)
NToInt(a) == IF a = <<>> THEN 0 ELSE a[1] + Base * NToInt(Tail(a))

RECURSIVE NAddRec(_, _, _, _)
NAddRec(a, b, i, c) ==
    IF i > Len(a) /\ i > Len(b)
    THEN IF c = 0 THEN <<>> ELSE <<c>>
    ELSE LET s == Limb(a, i) + Limb(b, i) + c
         IN  <<s % Base>> \o NAddRec(a, b, i + 1, s \div Base)

NAdd(a, b) == NNorm(NAddRec(a, b, 1, 0))

RECURSIVE NSubRec(_, _, _, _)
NSubRec(a, b, i, c) ==
    IF i > Len(a) THEN <<>>
    ELSE LET s == a[i] - Limb(b, i) - c
         IN  IF s < 0 THEN <<s + Base>> \o NSubRec(a, b, i + 1, 1)
                      ELSE <<s>> \o NSubRec(a, b, i + 1, 0)

\* a - b for a >= b
NSub(a, b) == NNorm(NSubRec(a, b, 1, 0))

RECURSIVE NCmpRec(_, _, _)
NCmpRec(a, b, i) ==
    IF i = 0 THEN 0
    ELSE IF a[i] > b[i] THEN 1
    ELSE IF a[i] < b[i] THEN -1
    ELSE NCmpRec(a, b, i - 1)

NCmp(a, b) ==
    IF Len(a) > Len(b) THEN 1
    ELSE IF Len(a) < Len(b) THEN -1
    ELSE NCmpRec(a, b, Len(a))

RECURSIVE NMulSmallRec(_, _, _, _)
NMulSmallRec(a, k, i, c) ==
    IF i > Len(a)
    THEN IF c = 0 THEN <<>> ELSE <<c>>
    ELSE LET s == a[i] * k + c
         IN  <<s % Base>> \o NMulSmallRec(a, k, i + 1, s \div Base)

\* a * k for 0 <= k < Base
NMulSmall(a, k) == NNorm(NMulSmallRec(a, k, 1, 0))

RECURSIVE NMulRec(_, _, _)
NMulRec(a, b, j) ==
    IF j > Len(b) THEN <<>>
    ELSE NAdd(Zeros(j - 1) \o NMulSmall(a, b[j]), NMulRec(a, b, j + 1))

NMul(a, b) == NNorm(NMulRec(a, b, 1))

RECURSIVE NDivSmallRec(_, _, _, _)
NDivSmallRec(a, k, i, r) ==
    IF i = 0 THEN [q |-> <<>>, r |-> r]
    ELSE LET cur  == r * Base + a[i]
             rest == NDivSmallRec(a, k, i - 1, cur % k)
         IN  [q |-> Append(rest.q, cur \div k), r |-> rest.r]

NormQuotient(d) == [q |-> NNorm(d.q), r |-> d.r]

\* quotient and remainder of a by k, 0 < k <= Base
NDivSmall(a, k) == NormQuotient(NDivSmallRec(a, k, Len(a), 0))

NShl(a, bits) ==
    IF a = <<>> THEN a
    ELSE Zeros(bits \div LimbBits) \o NMulSmall(a, Pow2(bits % LimbBits))

NShr(a, bits) ==
    LET drop == bits \div LimbBits
    IN  IF drop >= Len(a) THEN <<>>
        ELSE NDivSmall(SubSeq(a, drop + 1, Len(a)), Pow2(bits % LimbBits)).q

RECURSIVE BitLenInt(_)
BitLenInt(n) == IF n = 0 THEN 0 ELSE 1 + BitLenInt(n \div 2)

NBitLen(a) ==
    IF a = <<>> THEN 0 ELSE LimbBits * (Len(a) - 1) + BitLenInt(a[Len(a)])

(***************************************************************************)
(* binary64: the value of [s, m, e] is (-1)^s * m * 2^e, with m of exactly *)
(* MantBits bits, or m = <<>> for zero.  Equal numbers are equal records.  *)
(***************************************************************************)
F64Zero == [s |-> 0, m |-> <<>>, e |-> 0]

\* a significand that rounding carried to MantBits + 1 bits is halved
F64Renorm(s, m0, e) ==
    IF NBitLen(m0) > MantBits
    THEN [s |-> s, m |-> NShr(m0, 1), e |-> e + 1]
    ELSE [s |-> s, m |-> m0, e |-> e]

\* round to nearest, ties to even: q the kept bits, c the comparison of the
\* dropped bits with half a unit of q
F64RoundUp(s, q, e, sticky, c) ==
    F64Renorm(s, IF c > 0 \/ (c = 0 /\ (sticky \/ q[1] % 2 = 1)) THEN NAdd(q, <<1>>) ELSE q, e)

F64RoundKept(s, N, e, sticky, d, q) ==
    F64RoundUp(s, q, e + d, sticky, NCmp(NSub(N, NShl(q, d)), NShl(<<1>>, d - 1)))

F64RoundLen(s, N, e, sticky, L) ==
    IF L = 0 THEN F64Zero
    ELSE IF L <= MantBits
    THEN [s |-> s, m |-> NShl(N, MantBits - L), e |-> e - (MantBits - L)]
    ELSE F64RoundKept(s, N, e, sticky, L - MantBits, NShr(N, L - MantBits))

\* the binary64 nearest to (-1)^s * (N + t) * 2^e, 0 <= t < 1, t > 0 iff sticky
F64Round(s, N, e, sticky) == F64RoundLen(s, N, e, sticky, NBitLen(N))

F64FromInt(i) == F64Round(Sign(i), NFromInt(Abs(i)), 0, FALSE)

F64RoundQuotient(s, d, e) == F64Round(s, d.q, e, d.r # 0)

\* the binary64 nearest to p / q, 0 < q <= Base: an int / int true division,
\* and the value of a decimal literal p / 10^k
F64FromRatio(p, q) ==
    F64RoundQuotient(Sign(p), NDivSmall(NShl(NFromInt(Abs(p)), GuardShift), q), -GuardShift)

\* x / k for a float k whose value is the integer k, 0 < k <= Base
F64DivSmall(x, k) ==
    F64RoundQuotient(x.s, NDivSmall(NShl(x.m, GuardShift), k), x.e - GuardShift)

F64Mul(x, y) == F64Round((x.s + y.s) % 2, NMul(x.m, y.m), x.e + y.e, FALSE)

\* the sum of two numbers whose significands xm, ym are aligned at exponent e
F64AddAligned(xs, ys, xm, ym, e) ==
    F64Round(IF xs = ys \/ NCmp(xm, ym) >= 0 THEN xs ELSE ys,
             IF xs = ys THEN NAdd(xm, ym)
             ELSE IF NCmp(xm, ym) >= 0 THEN NSub(xm, ym) ELSE NSub(ym, xm),
             e, FALSE)

F64AddAt(x, y, e) == F64AddAligned(x.s, y.s, NShl(x.m, x.e - e), NShl(y.m, y.e - e), e)

F64Add(x, y) ==
    IF x.m = <<>> THEN y
    ELSE IF y.m = <<>> THEN x
    ELSE F64AddAt(x, y, IF x.e < y.e THEN x.e ELSE y.e)

F64Neg(x) == IF x.m = <<>> THEN x ELSE [x EXCEPT !.s = 1 - x.s]

F64IsNegative(x) == x.m # <<>> /\ x.s = 1

F64Lt(x, y) == F64IsNegative(F64Add(x, F64Neg(y)))
F64Ge(x, y) == ~F64Lt(x, y)
F64Gt(x, y) == F64Lt(y, x)

\* Python's min(x, y): y when y < x, else x
F64Min(x, y) == IF F64Lt(y, x) THEN y ELSE x

\* k hundredths and the comparison c of the rest with half a hundredth
HalfEven(k, c) == IF c > 0 \/ (c = 0 /\ k % 2 = 1) THEN k + 1 ELSE k

HundredthsKept(N, d, q) ==
    HalfEven(NToInt(q), NCmp(NSub(N, NShl(q, d)), NShl(<<1>>, d - 1)))

Hundredths(N, e) ==
    IF e >= 0 THEN NToInt(NShl(N, e)) ELSE HundredthsKept(N, -e, NShr(N, -e))

\* round(x, 2), as the integer number of hundredths h whose nearest binary64
\* is the float returned: the exact value of x rounded half to even
F64Round2(x) ==
    IF x.m = <<>> THEN 0
    ELSE (IF x.s = 1 THEN -1 ELSE 1) * Hundredths(NMulSmall(x.m, 100), x.e)

(***************************************************************************)
(* Python str operations                                                   *)
(***************************************************************************)
UpperChars == <<"A", "B", "C", "D", "E", "F", "G", "H", "I", "J", "K", "L", "M",
                "N", "O", "P", "Q", "R", "S", "T", "U", "V", "W", "X", "Y", "Z">>
LowerChars == <<"a", "b", "c", "d", "e", "f", "g", "h", "i", "j", "k", "l", "m",
                "n", "o", "p", "q", "r", "s", "t", "u", "v", "w", "x", "y", "z">>
WhitespaceChars == {" ", "\t", "\n"}
DigitChars == <<"0", "1", "2", "3", "4", "5", "6", "7", "8", "9">>

LowerChar(c) ==
    IF \E i \in 1..Len(UpperChars) : UpperChars[i] = c
    THEN LowerChars[CHOOSE i \in 1..Len(UpperChars) : UpperChars[i] = c]
    ELSE c

\* s.lower()
str_lower(s) == [i \in 1..Len(s) |-> LowerChar(s[i])]

\* s.strip()
str_strip(s) ==
    LET keep == {i \in 1..Len(s) : s[i] \notin WhitespaceChars}
    IN  IF keep = {} THEN <<>>
        ELSE SubSeq(s, CHOOSE i \in keep : \A j \in keep : i <= j,
                       CHOOSE i \in keep : \A j \in keep : i >= j)

\* s.split(sep) for a one-character separator
RECURSIVE str_split(_, _)
str_split(s, sep) ==
    LET at == {i \in 1..Len(s) : s[i] = sep}
    IN  IF at = {} THEN <<s>>
        ELSE LET i == CHOOSE k \in at : \A j \in at : k <= j
             IN  <<SubSeq(s, 1, i - 1)>> \o str_split(SubSeq(s, i + 1, Len(s)), sep)

\* sub in s
str_contains(sub, s) ==
    \E i \in 1..(Len(s) - Len(sub) + 1) : SubSeq(s, i, i + Len(sub) - 1) = sub

\* [f(x) for x in l if p(x)] building blocks
RECURSIVE SelectNonEmpty(_)
SelectNonEmpty(l) ==
    IF l = <<>> THEN <<>>
    ELSE IF Head(l) # <<>> THEN <<Head(l)>> \o SelectNonEmpty(Tail(l))
    ELSE SelectNonEmpty(Tail(l))

(***************************************************************************)
(* JSON values as json.loads returns them.  A scalar or list value of a    *)
(* mapping is [t, s, n, l]: t its kind, s the characters of a str, n a     *)
(* number in tenths (the decimal literal n/10), l the items of a list.     *)
(* t = "missing" stands for a key the mapping does not have.               *)
(***************************************************************************)
JMissing == [t |-> "missing", s |-> <<>>, n |-> 0, l |-> <<>>]
JNull == [t |-> "null", s |-> <<>>, n |-> 0, l |-> <<>>]
JStr(s) == [t |-> "str", s |-> s, n |-> 0, l |-> <<>>]
JNum(n) == [t |-> "num", s |-> <<>>, n |-> n, l |-> <<>>]
JList(l) == [t |-> "list", s |-> <<>>, n |-> 0, l |-> l]
IStr(s) == [t |-> "str", s |-> s, n |-> 0]
INum(n) == [t |-> "num", s |-> <<>>, n |-> n]

FieldNames == {"name", "email", "phone", "total_years_experience",
               "highest_degree", "skills_list"}

EmptyObject == [f \in FieldNames |-> JMissing]

\* A JSON document: an object (its six schema keys, and whether it has other
\* keys), an array, null; t = "None" is Python's None.
JObject(fields, extra) == [t |-> "object", obj |-> fields, extra |-> extra]
JArray == [t |-> "array", obj |-> EmptyObject, extra |-> FALSE]
PyNone == [t |-> "None", obj |-> EmptyObject, extra |-> FALSE]

\* bool(value) of what json.loads returned
Truthy(doc) ==
    \/ doc.t = "array"
    \/ doc.t = "object" /\ (doc.extra \/ \E f \in FieldNames : doc.obj[f].t # "missing")

(***************************************************************************)
(* class ResumeData(BaseModel) and ResumeData.model_validate               *)
(***************************************************************************)
IsDigit(c) == \E i \in 1..Len(DigitChars) : DigitChars[i] = c
DigitValue(c) == (CHOOSE i \in 1..Len(DigitChars) : DigitChars[i] = c) - 1

RECURSIVE DigitsToInt(_)
DigitsToInt(d) ==
    IF d = <<>> THEN 0 ELSE 10 * DigitsToInt(SubSeq(d, 1, Len(d) - 1)) + DigitValue(d[Len(d)])

RECURSIVE Pow10(_)
Pow10(k) == IF k = 0 THEN 1 ELSE 10 * Pow10(k - 1)

\* A str as a float: [ok, p, q] with value p / q.  Signed decimals with at
\* most four fraction digits are read; a str with any other character has
\* no float value.
str_to_float(s) ==
    LET signed == s # <<>> /\ s[1] \in {"-", "+"}
        body   == IF signed THEN Tail(s) ELSE s
        dots   == {i \in 1..Len(body) : body[i] = "."}
        dot    == IF dots = {} THEN Len(body) + 1 ELSE CHOOSE i \in dots : TRUE
        ip     == SubSeq(body, 1, dot - 1)
        fp     == SubSeq(body, dot + 1, Len(body))
        ok     == /\ Cardinality(dots) <= 1
                  /\ Len(ip) + Len(fp) >= 1
                  /\ Len(fp) <= 4
                  /\ \A i \in 1..Len(ip) : IsDigit(ip[i])
                  /\ \A i \in 1..Len(fp) : IsDigit(fp[i])
        mag    == DigitsToInt(ip \o fp)
    IN  IF ok
        THEN [ok |-> TRUE, p |-> IF signed /\ s[1] = "-" THEN -mag ELSE mag,
              q |-> Pow10(Len(fp))]
        ELSE [ok |-> FALSE, p |-> 0, q |-> 1]

\* name, email, highest_degree: str, required
ValidStr(v) == v.t = "str"

\* phone: Optional[str] with no default: the key is required, null is None
ValidOptionalStr(v) == v.t \in {"str", "null"}

\* total_years_experience: float, required, no default; numbers and numeric
\* strings are accepted
ValidFloat(v) == v.t = "num" \/ (v.t = "str" /\ str_to_float(v.s).ok)

CoerceFloat(v) ==
    IF v.t = "num" THEN F64FromRatio(v.n, 10)
    ELSE LET r == str_to_float(v.s) IN F64FromRatio(r.p, r.q)

\* skills_list: List[str], required
ValidStrList(v) == v.t = "list" /\ \A i \in 1..Len(v.l) : v.l[i].t = "str"

FieldValid(f, v) ==
    CASE f \in {"name", "email", "highest_degree"} -> ValidStr(v)
      [] f = "phone" -> ValidOptionalStr(v)
      [] f = "total_years_experience" -> ValidFloat(v)
      [] f = "skills_list" -> ValidStrList(v)

\* The fields pydantic reports in its ValidationError ("model" for a value
\* that is no mapping at all)
ValidationErrors(doc) ==
    IF doc.t # "object" THEN {"model"}
    ELSE {f \in FieldNames : ~FieldValid(f, doc.obj[f])}

\* The ResumeData instance built from a mapping without validation errors
ResumeData(obj) ==
    [name                   |-> obj["name"].s,
     email                  |-> obj["email"].s,
     phone                  |-> [some |-> obj["phone"].t = "str", s |-> obj["phone"].s],
     total_years_experience |-> CoerceFloat(obj["total_years_experience"]),
     highest_degree         |-> obj["highest_degree"].s,
     skills_list            |-> [i \in 1..Len(obj["skills_list"].l) |-> obj["skills_list"].l[i].s]]

\* ResumeData.model_validate: <<instance>> or <<>> when it raises
model_validate(doc) ==
    IF ValidationErrors(doc) = {} THEN <<ResumeData(doc.obj)>> ELSE <<>>

(***************************************************************************)
(* calculate_resume_score                                                  *)
(***************************************************************************)
skill_weight == 40
target_experience == 5
experience_weight == 30
final_cap == 100

MasterTier == << <<"M", "a", "s", "t", "e", "r">>, <<"M", ".", "S", ".">>, <<"M", "S">>,
                 <<"M", "B", "A">>, <<"P", "h", "D">>, <<"P", "h", ".", "D", ".">> >>
BachelorTier == << <<"B", "a", "c", "h", "e", "l", "o", "r">>, <<"B", ".", "S", ".">>,
                   <<"B", ".", "T", "e", "c", "h">> >>

\* parsed_skills_lower = [s.lower().strip() for s in parsed_data.skills_list]
parsed_skills_lower(parsed_data) ==
    [i \in 1..Len(parsed_data.skills_list) |-> str_strip(str_lower(parsed_data.skills_list[i]))]

\* any(skill.lower() == s for s in parsed_skills_lower)
skill_found(skill, lowered) ==
    \E i \in 1..Len(lowered) : str_lower(skill) = lowered[i]

\* the for loop over required_skills: skill_match_score after it
RECURSIVE skill_loop(_, _, _, _)
skill_loop(required_skills, lowered, points, acc) ==
    IF required_skills = <<>> THEN acc
    ELSE skill_loop(Tail(required_skills), lowered, points,
                    IF skill_found(Head(required_skills), lowered)
                    THEN F64Add(acc, points) ELSE acc)

\* 1. Skill Match: what is added to score
skill_match(parsed_data, required_skills) ==
    IF required_skills = <<>> THEN F64Zero
    ELSE LET skill_points_per_match == F64FromRatio(skill_weight, Len(required_skills))
             skill_match_score ==
                 skill_loop(required_skills, parsed_skills_lower(parsed_data),
                            skill_points_per_match, F64Zero)
         IN  F64Min(skill_match_score, F64FromInt(skill_weight))

\* the experience branch taken for more than the target only
experience_match_strict(parsed_data) ==
    IF F64Gt(parsed_data.total_years_experience, F64FromInt(target_experience))
    THEN F64FromInt(experience_weight)
    ELSE F64Mul(F64DivSmall(parsed_data.total_years_experience, target_experience),
                F64Mul(F64FromInt(experience_weight), F64FromRatio(8, 10)))

\* 2. Experience Match: what is added to score
experience_match(parsed_data) ==
    IF F64Ge(parsed_data.total_years_experience, F64FromInt(target_experience))
    THEN F64FromInt(experience_weight)
    ELSE F64Mul(F64DivSmall(parsed_data.total_years_experience, target_experience),
                F64Mul(F64FromInt(experience_weight), F64FromRatio(8, 10)))

\* 3. Education Bonus
education_score(parsed_data) ==
    IF \E i \in 1..Len(MasterTier) : str_contains(MasterTier[i], parsed_data.highest_degree)
    THEN 20
    ELSE IF \E i \in 1..Len(BachelorTier) : str_contains(BachelorTier[i], parsed_data.highest_degree)
    THEN 10
    ELSE 0

\* 4. Data Quality/Completeness
completeness_score(parsed_data) ==
      (IF parsed_data.name # <<>> THEN 3 ELSE 0)
    + (IF parsed_data.email # <<>> THEN 3 ELSE 0)
    + (IF parsed_data.phone.some /\ parsed_data.phone.s # <<>> THEN 2 ELSE 0)
    + (IF F64Gt(parsed_data.total_years_experience, F64Zero) THEN 2 ELSE 0)

\* The four amounts added to score, as the function computes them
score_components(parsed_data, required_skills) ==
    [skill        |-> skill_match(parsed_data, required_skills),
     experience   |-> experience_match(parsed_data),
     education    |-> education_score(parsed_data),
     completeness |-> completeness_score(parsed_data)]

\* score after the four += of the function
score_sum(c) ==
    F64Add(F64Add(F64Add(F64Add(F64Zero, c.skill), c.experience),
                  F64FromInt(c.education)),
           F64FromInt(c.completeness))

\* The returned round(min(score, 100.0), 2), in hundredths
calculate_resume_score(parsed_data, required_skills) ==
    F64Round2(F64Min(score_sum(score_components(parsed_data, required_skills)),
                     F64FromInt(final_cap)))

\* required_skills = [s.strip() for s in required_skills_input.split(',') if s.strip()]
parse_required_skills(required_skills_input) ==
    LET parts == str_split(required_skills_input, ",")
    IN  SelectNonEmpty([i \in 1..Len(parts) |-> str_strip(parts[i])])

(***************************************************************************)
(* Bounds and input domains                                                *)
(***************************************************************************)
\* script runs started by a button (Analyze or the sidebar's Initialize)
MaxRuns == 2
\* required skills of the scoring inputs drawn with every record
MaxRequired == 3
\* required skills of the scoring inputs drawn with the two skill records
MaxRequiredLong == 9

sJane == <<"J", "a", "n", "e">>
sJan == <<"J", "a", "n">>
sBob == <<"B", "o", "b">>
sEmail1 == <<"j", "@", "x">>
sEmail2 == <<"b", "@", "x">>
sPhone == <<"5", "5", "5">>
sPython == <<"P", "y", "t", "h", "o", "n">>
sPythonLower == <<"p", "y", "t", "h", "o", "n">>
sAws == <<"A", "W", "S">>
sAwsPadded == <<" ", "a", "w", "s", " ">>
sSql == <<"S", "Q", "L">>
sSqlMixed == <<"S", "q", "l">>
sDegreeMS == <<"M", ".", "S", ".", " ", "C", "S">>
sDegreeBS == <<"B", ".", "S", ".">>
sDegreeLower == <<"m", ".", "s", ".">>
sDegreeBoth == <<"B", ".", "S", ".", ",", " ", "M", "B", "A">>
sTwoAndHalf == <<"2", ".", "5">>
sFive == <<"f", "i", "v", "e">>

SeqsUpTo(S, n) == UNION {[1..k -> S] : k \in 0..n}

RECURSIVE JoinComma(_)
JoinComma(l) ==
    IF l = <<>> THEN <<>>
    ELSE IF Len(l) = 1 THEN l[1]
    ELSE l[1] \o <<",">> \o JoinComma(Tail(l))

JaneFields ==
    [name                   |-> JStr(sJane),
     email                  |-> JStr(sEmail1),
     phone                  |-> JNull,
     total_years_experience |-> JNum(60),
     highest_degree         |-> JStr(sDegreeMS),
     skills_list            |-> JList(<<IStr(sPython), IStr(sAwsPadded)>>)]

BobFields ==
    [name                   |-> JStr(sBob),
     email                  |-> JStr(sEmail2),
     phone                  |-> JStr(sPhone),
     total_years_experience |-> JNum(25),
     highest_degree         |-> JStr(sDegreeBS),
     skills_list            |-> JList(<<IStr(sSql)>>)]

\* Mappings in which every field passes validation: every number of years
\* with the other fields of JaneFields, and every combination of the other
\* fields with a number of years below zero and one above the target
ValidFields ==
    {[JaneFields EXCEPT !.total_years_experience = y] :
        y \in {JNum(-50), JNum(-1), JNum(0), JNum(1), JNum(25), JNum(49), JNum(50),
               JNum(60), JStr(sTwoAndHalf)}}
    \cup
    {[name                   |-> JStr(n),
      email                  |-> JStr(sEmail1),
      phone                  |-> ph,
      total_years_experience |-> y,
      highest_degree         |-> JStr(d),
      skills_list            |-> JList(sk)] :
        n \in {sJane, <<>>},
        ph \in {JNull, JStr(sPhone)},
        y \in {JNum(-50), JNum(60)},
        d \in {<<>>, sDegreeBS, sDegreeLower, sDegreeBoth},
        sk \in {<<>>, <<IStr(sSql), IStr(sPythonLower), IStr(sAws)>>}}

\* Mappings with one field missing or of a wrong kind
FaultyFields ==
    {[JaneFields EXCEPT ![f] = v] :
        f \in FieldNames, v \in {JMissing, JNull, JNum(3), JStr(sFive), JStr(<<>>),
                                 JList(<<INum(1)>>)}}

ScoreDocs ==
    {JObject(o, FALSE) : o \in ValidFields \cup FaultyFields} \cup {JArray}

ScoreReqInputs ==
    {JoinComma(l) : l \in SeqsUpTo({sPythonLower, <<" ">> \o sAws \o <<" ">>}, MaxRequired)}

LongDocs == {JObject(JaneFields, FALSE)}

LongReqInputs ==
    {JoinComma(l) : l \in SeqsUpTo({sPythonLower, <<" ">> \o sSqlMixed}, MaxRequiredLong)}

\* What the Groq call can do: fail in transport (timeout, non-success
\* status), answer without content, or answer with a body: text that is no
\* JSON (t = "notjson") or a JSON document.
NotJson == [t |-> "notjson", obj |-> EmptyObject, extra |-> FALSE]
JsonNull == [t |-> "null", obj |-> EmptyObject, extra |-> FALSE]

TransportFailures ==
    {[kind |-> k, body |-> PyNone] : k \in {"timeout", "http_error", "empty_response"}}

PipelineDocs ==
    {JsonNull, JArray, JObject(EmptyObject, FALSE), JObject(EmptyObject, TRUE),
     JObject(JaneFields, FALSE),
     JObject([JaneFields EXCEPT !.name = JStr(sJan), !.total_years_experience = JNum(25)], FALSE),
     JObject(BobFields, TRUE),
     JObject([BobFields EXCEPT !.total_years_experience = JNum(-50)], FALSE),
     JObject([JaneFields EXCEPT !.total_years_experience = JMissing], FALSE),
     JObject([JaneFields EXCEPT !.total_years_experience = JStr(sFive)], FALSE),
     JObject([BobFields EXCEPT !.skills_list = JStr(sSql)], FALSE)}

LLMResponses ==
    TransportFailures \cup {[kind |-> "body", body |-> b] : b \in {NotJson} \cup PipelineDocs}

NoResponse == [kind |-> "none", body |-> PyNone]

ApiKeys == {"", "gsk_key"}
UploadedFiles == {"None", "cv.pdf"}
RequiredInputs ==
    {<<>>, <<" ", ",", " ">>, sPython \o <<",", " ">> \o sAws,
     sSqlMixed \o <<",", ",">> \o sPythonLower \o <<" ", ",">> \o sAws}
ResumeText == "Jane Doe, M.S. CS, Python, AWS"
JobDescription == "Senior Python Developer with 5+ years of experience."

(***************************************************************************)
(* State                                                                   *)
(***************************************************************************)
VARIABLES
    pc,                     \* position of the script run; "idle" between runs
    run_kind,               \* the button that started the last run
    runs,                   \* runs started so far
    groq_api_key,           \* sidebar text input
    uploaded_file,          \* st.file_uploader value, "None" when empty
    required_skills_input,  \* st.text_input value
    required_skills,        \* line 284
    init_cache,             \* st.cache_resource of initialize_database
    client_cache,           \* st.cache_resource of get_groq_client
    text_cache,             \* st.cache_data of extract_text_from_pdf
    raw_text,               \* <<>> before extraction, else <<text>>
    llm_response,           \* what the Groq call did in this run
    parsed_json,            \* value returned by parse_resume_with_llm
    raw_shown,              \* <<payload>> once st.json(parsed_json) showed it
    parsed_data,            \* <<ResumeData>> once validated
    final_score,            \* <<hundredths>> once scored
    components,             \* <<the four amounts added to score>>
    shown,                  \* <<score and record>> once the results are displayed
    trace,                  \* collaborator calls and messages of the run, in order
    outcome,                \* how the run ended, "running" while it has not
    db                      \* rows of parsed_resumes

vars == <<pc, run_kind, runs, groq_api_key, uploaded_file, required_skills_input,
          required_skills, init_cache, client_cache, text_cache, raw_text,
          llm_response, parsed_json, raw_shown, parsed_data, final_score,
          components, shown, trace, outcome, db>>

widgets == <<groq_api_key, uploaded_file, required_skills_input, required_skills>>
caches == <<init_cache, client_cache, text_cache>>
locals == <<raw_text, llm_response, parsed_json, raw_shown, parsed_data,
            final_score, components, shown>>

CollaboratorCalls ==
    {"initialize_database", "Groq", "fitz.open", "chat.completions.create",
     "mysql.connector.connect", "INSERT"}

Called(c) == \E i \in 1..Len(trace) : trace[i] = c
CountOf(c) == Cardinality({i \in 1..Len(trace) : trace[i] = c})
IndexOf(c) == CHOOSE i \in 1..Len(trace) : trace[i] = c

(***************************************************************************)
(* Collaborator wrappers                                                   *)
(***************************************************************************)
\* parse_resume_with_llm with an except clause for the API call only: a body
\* that is no JSON is handed on as it came
parse_resume_with_llm_decode_unguarded(resp) ==
    IF resp.kind # "body" THEN PyNone
    ELSE IF resp.body.t = "null" THEN PyNone
    ELSE resp.body

\* parse_resume_with_llm: json.loads of the message content, and None for
\* every exception of the try block (the API call raising, a content of
\* None, a body that is no JSON)
parse_resume_with_llm(resp) ==
    IF resp.kind # "body" THEN PyNone
    ELSE IF resp.body.t = "notjson" THEN PyNone
    ELSE IF resp.body.t = "null" THEN PyNone
    ELSE resp.body

\* json.dumps of a list of str (no character of the model needs escaping)
RECURSIVE json_dumps_items(_)
json_dumps_items(l) ==
    IF l = <<>> THEN <<>>
    ELSE <<"\"">> \o Head(l) \o <<"\"">>
         \o (IF Len(l) = 1 THEN <<>> ELSE <<",", " ">>) \o json_dumps_items(Tail(l))

json_dumps(l) == <<"[">> \o json_dumps_items(l) \o <<"]">>

\* the tuple `data` of store_in_mysql, by column
InsertData(filename, data, job_description, score) ==
    [filename               |-> filename,
     name                   |-> data.name,
     email                  |-> data.email,
     phone                  |-> data.phone,
     total_years_experience |-> data.total_years_experience,
     highest_degree         |-> data.highest_degree,
     skills                 |-> json_dumps(data.skills_list),
     job_description        |-> job_description,
     score                  |-> score]

\* the table created without UNIQUE on email
DuplicateKey_no_constraint(table, row) == FALSE

\* email VARCHAR(255) UNIQUE NOT NULL: the INSERT is refused when a row has the email
DuplicateKey(table, row) == \E r \in table : r.email = row.email

\* cursor.execute(INSERT) and conn.commit(): the table afterwards
InsertRow(table, row) == IF DuplicateKey(table, row) THEN table ELSE table \cup {row}

(***************************************************************************)
(* The script                                                              *)
(***************************************************************************)
DefaultSkillsInput ==
    <<"P", "y", "t", "h", "o", "n", ",", " ", "D", "j", "a", "n", "g", "o", ",", " ",
      "A", "W", "S", ",", " ", "M", "y", "S", "Q", "L", ",", " ",
      "R", "E", "S", "T", " ", "A", "P", "I">>

NoLocals ==
    /\ raw_text = <<>>
    /\ llm_response = NoResponse
    /\ parsed_json = PyNone
    /\ raw_shown = <<>>
    /\ parsed_data = <<>>
    /\ final_score = <<>>
    /\ components = <<>>
    /\ shown = <<>>

Init ==
    /\ pc = "idle"
    /\ run_kind = "none"
    /\ runs = 0
    /\ groq_api_key = ""
    /\ uploaded_file = "None"
    /\ required_skills_input = DefaultSkillsInput
    /\ required_skills = parse_required_skills(DefaultSkillsInput)
    /\ init_cache = <<>>
    /\ client_cache = <<>>
    /\ text_cache = <<>>
    /\ NoLocals
    /\ trace = <<>>
    /\ outcome = "none"
    /\ db = {}

\* the start of a rerun of the script: no local of the last run is left
FreshRun ==
    /\ raw_text' = <<>>
    /\ llm_response' = NoResponse
    /\ parsed_json' = PyNone
    /\ raw_shown' = <<>>
    /\ parsed_data' = <<>>
    /\ final_score' = <<>>
    /\ components' = <<>>
    /\ shown' = <<>>

Stop(result, events) ==
    /\ pc' = "idle"
    /\ outcome' = result
    /\ trace' = trace \o events

\* The sidebar button "Initialize/Check Database Connection": initialize_database
\* behind st.cache_resource, which calls MySQL only when nothing is cached
InitButton ==
    /\ pc = "idle"
    /\ runs < MaxRuns
    /\ runs' = runs + 1
    /\ run_kind' = "init_button"
    /\ FreshRun
    /\ \E ok \in BOOLEAN :
          /\ init_cache # <<>> => ok = init_cache[1]
          /\ init_cache' = <<ok>>
          /\ trace' = (IF init_cache = <<>> THEN <<"initialize_database">> ELSE <<>>)
                      \o <<IF ok THEN "st.success: schema is ready"
                                 ELSE "st.error: Database initialization failed">>
          /\ outcome' = IF ok THEN "init_ok" ELSE "init_failed"
    /\ pc' = "idle"
    /\ UNCHANGED <<widgets, client_cache, text_cache, db>>

\* the if / elif chain without its two elif branches for the file and the skills
AnalyzeButton_unchecked ==
    /\ pc = "idle"
    /\ runs < MaxRuns
    /\ runs' = runs + 1
    /\ run_kind' = "analyze"
    /\ FreshRun
    /\ \E key \in ApiKeys, file \in UploadedFiles, input \in RequiredInputs :
          /\ groq_api_key' = key
          /\ uploaded_file' = file
          /\ required_skills_input' = input
          /\ required_skills' = parse_required_skills(input)
          /\ IF key = ""
             THEN /\ pc' = "idle"
                  /\ outcome' = "no_api_key"
                  /\ trace' = <<"st.error: enter your Groq API Key">>
             ELSE /\ pc' = "initialize_database"
                  /\ outcome' = "running"
                  /\ trace' = <<>>
    /\ UNCHANGED <<caches, db>>

\* The button "Analyze & Score Resume" up to the first collaborator: the
\* widget values of this rerun and the if / elif chain of lines 290-295
AnalyzeButton ==
    /\ pc = "idle"
    /\ runs < MaxRuns
    /\ runs' = runs + 1
    /\ run_kind' = "analyze"
    /\ FreshRun
    /\ \E key \in ApiKeys, file \in UploadedFiles, input \in RequiredInputs :
          /\ groq_api_key' = key
          /\ uploaded_file' = file
          /\ required_skills_input' = input
          /\ required_skills' = parse_required_skills(input)
          /\ IF key = ""
             THEN /\ pc' = "idle"
                  /\ outcome' = "no_api_key"
                  /\ trace' = <<"st.error: enter your Groq API Key">>
             ELSE IF file = "None"
             THEN /\ pc' = "idle"
                  /\ outcome' = "no_file"
                  /\ trace' = <<"st.warning: upload a PDF resume">>
             ELSE IF parse_required_skills(input) = <<>>
             THEN /\ pc' = "idle"
                  /\ outcome' = "no_skills"
                  /\ trace' = <<"st.warning: specify at least one key skill">>
             ELSE /\ pc' = "initialize_database"
                  /\ outcome' = "running"
                  /\ trace' = <<>>
    /\ UNCHANGED <<caches, db>>

\* elif not initialize_database(db_config)
InitializeDatabase ==
    /\ pc = "initialize_database"
    /\ \E ok \in BOOLEAN :
          /\ init_cache # <<>> => ok = init_cache[1]
          /\ init_cache' = <<ok>>
          /\ LET called == IF init_cache = <<>> THEN <<"initialize_database">> ELSE <<>>
             IN  IF ok
                 THEN /\ pc' = "get_groq_client"
                      /\ trace' = trace \o called
                      /\ UNCHANGED outcome
                 ELSE Stop("db_unavailable",
                           called \o <<"st.error: Database connection failed">>)
    /\ UNCHANGED <<run_kind, runs, widgets, client_cache, text_cache, locals, db>>

\* groq_client = get_groq_client(groq_api_key); st.stop() without a client
GetGroqClient ==
    /\ pc = "get_groq_client"
    /\ \E client \in {"client", "None"} :
          /\ client_cache # <<>> => client = client_cache[1]
          /\ client_cache' = <<client>>
          /\ LET called == IF client_cache = <<>> THEN <<"Groq">> ELSE <<>>
             IN  IF client = "None"
                 THEN Stop("no_client", called)
                 ELSE /\ pc' = "extract_text_from_pdf"
                      /\ trace' = trace \o called
                      /\ UNCHANGED outcome
    /\ UNCHANGED <<run_kind, runs, widgets, init_cache, text_cache, locals, db>>

\* raw_text = extract_text_from_pdf(uploaded_file): the text of the pages, ""
\* for a document without text and "" for any exception
ExtractText ==
    /\ pc = "extract_text_from_pdf"
    /\ \E text \in {"", ResumeText}, raised \in BOOLEAN :
          /\ raised => text = ""
          /\ text_cache # <<>> => (text = text_cache[1] /\ ~raised)
          /\ text_cache' = <<text>>
          /\ raw_text' = <<text>>
          /\ trace' = trace
                      \o (IF text_cache = <<>> THEN <<"fitz.open">> ELSE <<>>)
                      \o (IF raised THEN <<"st.error: Error extracting text from PDF">>
                                    ELSE <<>>)
    /\ pc' = "parse_resume_with_llm"
    /\ UNCHANGED <<run_kind, runs, widgets, init_cache, client_cache, llm_response,
                   parsed_json, raw_shown, parsed_data, final_score, components,
                   shown, outcome, db>>

\* parsed_json = parse_resume_with_llm(groq_client, raw_text) and the
\* `if not parsed_json` after it
ParseResume ==
    /\ pc = "parse_resume_with_llm"
    /\ \E resp \in LLMResponses :
          LET returned == parse_resume_with_llm(resp)
              failed   == resp.kind # "body" \/ resp.body.t = "notjson"
              called   == <<"chat.completions.create">>
                          \o (IF failed THEN <<"st.error: Error during LLM parsing or JSON decoding">>
                                        ELSE <<>>)
          IN  /\ llm_response' = resp
              /\ parsed_json' = returned
              /\ IF ~Truthy(returned)
                 THEN Stop("llm_failed",
                           called \o <<"st.error: LLM failed to produce valid data">>)
                 ELSE /\ pc' = "model_validate"
                      /\ trace' = trace \o called
                      /\ UNCHANGED outcome
    /\ UNCHANGED <<run_kind, runs, widgets, caches, raw_text, raw_shown, parsed_data,
                   final_score, components, shown, db>>

\* the except branch without its st.stop(): the script goes on to the display
ValidateAndScore_no_stop ==
    /\ pc = "model_validate"
    /\ LET validated == model_validate(parsed_json)
       IN  IF validated = <<>>
           THEN /\ raw_shown' = <<parsed_json>>
                /\ trace' = trace \o <<"st.error: Data validation error (Pydantic)",
                                       "st.json(parsed_json)">>
                /\ pc' = "display"
                /\ UNCHANGED <<parsed_data, final_score, components, outcome>>
           ELSE /\ parsed_data' = validated
                /\ final_score' = <<calculate_resume_score(validated[1], required_skills)>>
                /\ components' = <<score_components(validated[1], required_skills)>>
                /\ pc' = "display"
                /\ UNCHANGED <<raw_shown, trace, outcome>>
    /\ UNCHANGED <<run_kind, runs, widgets, caches, raw_text, llm_response,
                   parsed_json, shown, db>>

\* The try block of lines 318-324: validation and scoring, and the except
\* branch that shows the error and the raw LLM output and stops
ValidateAndScore ==
    /\ pc = "model_validate"
    /\ LET validated == model_validate(parsed_json)
       IN  IF validated = <<>>
           THEN /\ raw_shown' = <<parsed_json>>
                /\ Stop("validation_error",
                        <<"st.error: Data validation error (Pydantic)", "st.json(parsed_json)">>)
                /\ UNCHANGED <<parsed_data, final_score, components>>
           ELSE /\ parsed_data' = validated
                /\ final_score' = <<calculate_resume_score(validated[1], required_skills)>>
                /\ components' = <<score_components(validated[1], required_skills)>>
                /\ pc' = "display"
                /\ UNCHANGED <<raw_shown, trace, outcome>>
    /\ UNCHANGED <<run_kind, runs, widgets, caches, raw_text, llm_response,
                   parsed_json, shown, db>>

\* the display left to after the database step
DisplayResults_after_store ==
    /\ pc = "display"
    /\ pc' = "store_in_mysql"
    /\ UNCHANGED <<run_kind, runs, widgets, caches, locals, trace, outcome, db>>

\* 5. Display Results: the score, name and email metrics and the data summary
DisplayResults ==
    /\ pc = "display"
    /\ shown' = <<[final_score |-> final_score[1], parsed_data |-> parsed_data[1]]>>
    /\ trace' = trace \o <<"st.success: Analysis Complete", "st.metric", "st.json(data_summary)">>
    /\ pc' = "store_in_mysql"
    /\ UNCHANGED <<run_kind, runs, widgets, caches, raw_text, llm_response,
                   parsed_json, raw_shown, parsed_data, final_score, components,
                   outcome, db>>

\* store_in_mysql: connect, INSERT, commit; every mysql.connector.Error is
\* caught and shown.  fault is what MySQL does: nothing wrong, refuse the
\* connection, or refuse the row for another reason than its email.
StoreInMysql ==
    /\ pc = "store_in_mysql"
    /\ \E fault \in {"none", "connection", "data"} :
          LET row == InsertData(uploaded_file, parsed_data[1], JobDescription, final_score[1])
          IN  IF fault = "connection"
              THEN /\ Stop("save_error_connection",
                           <<"mysql.connector.connect", "st.error: MySQL Save Error">>)
                   /\ UNCHANGED db
              ELSE IF fault = "data"
              THEN /\ Stop("save_error_data",
                           <<"mysql.connector.connect", "INSERT", "st.error: MySQL Save Error">>)
                   /\ UNCHANGED db
              ELSE IF DuplicateKey(db, row)
              THEN /\ Stop("save_error_duplicate",
                           <<"mysql.connector.connect", "INSERT", "st.error: MySQL Save Error">>)
                   /\ db' = InsertRow(db, row)
              ELSE /\ Stop("saved",
                           <<"mysql.connector.connect", "INSERT", "st.success: Database Save">>)
                   /\ db' = InsertRow(db, row)
    /\ UNCHANGED <<run_kind, runs, widgets, caches, locals>>

Next ==
    \/ InitButton
    \/ AnalyzeButton
    \/ InitializeDatabase
    \/ GetGroqClient
    \/ ExtractText
    \/ ParseResume
    \/ ValidateAndScore
    \/ DisplayResults
    \/ StoreInMysql

Spec == Init /\ [][Next]_vars

(***************************************************************************)
(* The schema and the scoring function on their own: every drawn mapping   *)
(* is validated and every record that validates is scored.                 *)
(***************************************************************************)
ScoreInit ==
    /\ pc = "fn_model_validate"
    /\ run_kind = "none"
    /\ runs = 0
    /\ groq_api_key = ""
    /\ uploaded_file = "None"
    /\ \E pair \in (ScoreDocs \X ScoreReqInputs) \cup (LongDocs \X LongReqInputs) :
          /\ parsed_json = pair[1]
          /\ required_skills_input = pair[2]
          /\ required_skills = parse_required_skills(pair[2])
    /\ init_cache = <<>>
    /\ client_cache = <<>>
    /\ text_cache = <<>>
    /\ raw_text = <<>>
    /\ llm_response = NoResponse
    /\ raw_shown = <<>>
    /\ parsed_data = <<>>
    /\ final_score = <<>>
    /\ components = <<>>
    /\ shown = <<>>
    /\ trace = <<>>
    /\ outcome = "none"
    /\ db = {}

FnValidate ==
    /\ pc = "fn_model_validate"
    /\ parsed_data' = model_validate(parsed_json)
    /\ pc' = IF model_validate(parsed_json) = <<>> THEN "fn_raised" ELSE "fn_calculate_resume_score"
    /\ UNCHANGED <<run_kind, runs, widgets, caches, raw_text, llm_response, parsed_json,
                   raw_shown, final_score, components, shown, trace, outcome, db>>

FnScore ==
    /\ pc = "fn_calculate_resume_score"
    /\ final_score' = <<calculate_resume_score(parsed_data[1], required_skills)>>
    /\ components' = <<score_components(parsed_data[1], required_skills)>>
    /\ pc' = "fn_returned"
    /\ UNCHANGED <<run_kind, runs, widgets, caches, raw_text, llm_response, parsed_json,
                   raw_shown, parsed_data, shown, trace, outcome, db>>

ScoreNext == FnValidate \/ FnScore

ScoreSpec == ScoreInit /\ [][ScoreNext]_vars

(***************************************************************************)
(* Claims                                                                  *)
(***************************************************************************)
F64Forty == F64FromInt(skill_weight)
F64Thirty == F64FromInt(experience_weight)
F64Five == F64FromInt(target_experience)
F64TwoAndHalf == F64FromRatio(25, 10)

SaveErrors == {"save_error_connection", "save_error_data", "save_error_duplicate"}
Rejections == {"no_api_key", "no_file", "no_skills"}
EmptyText == <<"">>

\* C1: if text extraction fails or yields empty text, no downstream stage
\* runs: the LLM is not called, nothing is validated or scored, and no insert
\* is attempted in that run.
C1_EmptyTextHalts ==
    raw_text = EmptyText =>
        /\ ~Called("chat.completions.create")
        /\ parsed_data = <<>>
        /\ final_score = <<>>
        /\ ~Called("INSERT")

\* C2: every run that reaches the persistence step has reported the score and
\* the validated record before the insert is attempted, and a storage failure
\* neither removes that report nor ends the run other than with the error shown.
C2_ResultReportedBeforeStore ==
    /\ (pc = "store_in_mysql" \/ Called("mysql.connector.connect")) =>
          /\ shown = <<[final_score |-> final_score[1], parsed_data |-> parsed_data[1]]>>
          /\ Called("st.metric")
    /\ Called("mysql.connector.connect") =>
          IndexOf("st.metric") < IndexOf("mysql.connector.connect")
    /\ outcome \in SaveErrors =>
          /\ pc = "idle"
          /\ shown = <<[final_score |-> final_score[1], parsed_data |-> parsed_data[1]]>>
          /\ trace[Len(trace)] = "st.error: MySQL Save Error"

C2_Witness ==
    /\ outcome = "save_error_connection"
    /\ shown # <<>>
    /\ Called("st.metric")

\* C3: a raw mapping that fails schema validation halts the run with the
\* validation error and the raw payload shown: there is no record, no score
\* is reported and no insert is attempted in that run.
C3_ValidationFailureHalts ==
    (Truthy(parsed_json) /\ ValidationErrors(parsed_json) # {} /\ pc # "model_validate") =>
        /\ pc = "idle"
        /\ outcome = "validation_error"
        /\ raw_shown = <<parsed_json>>
        /\ trace[Len(trace)] = "st.json(parsed_json)"
        /\ parsed_data = <<>>
        /\ final_score = <<>>
        /\ shown = <<>>
        /\ ~Called("st.metric")
        /\ ~Called("mysql.connector.connect")
        /\ ~Called("INSERT")

C3_Witness ==
    /\ outcome = "validation_error"
    /\ "total_years_experience" \in ValidationErrors(parsed_json)
    /\ raw_shown = <<parsed_json>>

\* C4: an Analyze request without an uploaded document or without a required
\* skill is rejected before any collaborator is invoked: no call to MySQL
\* (initialize_database included), the PDF reader, Groq or the LLM in that run.
C4_RejectedBeforeCollaborators ==
    (run_kind = "analyze" /\ (uploaded_file = "None" \/ required_skills = <<>>)) =>
        /\ pc = "idle"
        /\ outcome \in Rejections
        /\ \A i \in 1..Len(trace) : trace[i] \notin CollaboratorCalls
        /\ NoLocals

C4_Witness ==
    /\ run_kind = "analyze"
    /\ groq_api_key # ""
    /\ uploaded_file # "None"
    /\ required_skills = <<>>
    /\ outcome = "no_skills"

C6_ScoreInRange ==
    final_score # <<>> => (0 <= final_score[1] /\ final_score[1] <= 100 * final_cap)

\* a required skill matches when it equals some record skill, both lowered
\* and trimmed
RequiredMatches(skill, record) ==
    \E j \in 1..Len(record.skills_list) :
        str_strip(str_lower(skill)) = str_strip(str_lower(record.skills_list[j]))

MatchCount(record, required) ==
    Cardinality({i \in 1..Len(required) : RequiredMatches(required[i], record)})

\* C7: for a required-skill list of length n > 0 the skill-match component
\* lies in [0, 40], is 0 when no required skill matches, and equals 40 if and
\* only if every required skill matches some record skill, case-insensitively
\* and trimmed.
C7_FullSkillScoreIffAllMatch ==
    (components # <<>> /\ required_skills # <<>>) =>
        LET skill == components[1].skill
            k     == MatchCount(parsed_data[1], required_skills)
        IN  /\ F64Ge(skill, F64Zero)
            /\ F64Ge(F64Forty, skill)
            /\ k = 0 => skill = F64Zero
            /\ skill = F64Forty <=> k = Len(required_skills)

OtherFieldsValid(doc) ==
    doc.t = "object" /\ ValidationErrors(doc) \subseteq {"total_years_experience"}

\* C8: validating a mapping whose total_years_experience is missing or
\* unparseable, its other fields valid, does not fail and gives a record with
\* total_years_experience 0.0.
C8_MissingYearsDefaultToZero ==
    (pc \in {"fn_raised", "fn_calculate_resume_score", "fn_returned"}
       /\ OtherFieldsValid(parsed_json)
       /\ ~ValidFloat(parsed_json.obj["total_years_experience"])) =>
        /\ parsed_data # <<>>
        /\ parsed_data[1].total_years_experience = F64Zero

\* C9: the experience component is 30 if and only if total_years_experience
\* >= 5.0; below 5.0 it is (years / 5.0) * 24.0, so 2.5 years give 12.0.
C9_ExperienceComponent ==
    components # <<>> =>
        LET years      == parsed_data[1].total_years_experience
            experience == components[1].experience
        IN  /\ experience = F64Thirty <=> F64Ge(years, F64Five)
            /\ F64Lt(years, F64Five) =>
                  experience = F64Mul(F64DivSmall(years, 5), F64FromInt(24))
            /\ years = F64TwoAndHalf => experience = F64FromInt(12)

C9_Witness ==
    /\ components # <<>>
    /\ parsed_data[1].total_years_experience = F64TwoAndHalf
    /\ components[1].experience = F64FromInt(12)

UniqueEmails == \A r1, r2 \in db : r1.email = r2.email => r1 = r2

\* C10: the table holds at most one row per email after any sequence of
\* runs; an insert whose email is stored already ends in a storage error and
\* leaves every row as it was (no run changes or removes a row), and a run
\* attempts at most one insert.
C10_OneRowPerEmail ==
    /\ [](UniqueEmails /\ CountOf("INSERT") <= 1)
    /\ [][/\ db \subseteq db'
          /\ (pc = "store_in_mysql" /\ \E r \in db : r.email = parsed_data[1].email) =>
                (db' = db /\ outcome' \in SaveErrors)]_vars

C10_Witness ==
    /\ outcome = "save_error_duplicate"
    /\ Called("INSERT")
    /\ \E r \in db : r.email = parsed_data[1].email /\ r.name # parsed_data[1].name

====
